---- MODULE Spec2Model ----
(***************************************************************************)
(* A model of mapmaker/flatmap/feature.py: the Feature entity with its     *)
(* property mapping, and the FeatureMap index with its lookups and the     *)
(* anatomical resolution by spatial containment; and of the traversal of   *)
(* a slide's shapes in mapmaker/sources/powerpoint/__init__.py.            *)
(*                                                                         *)
(* Python values are tagged records, so that a string, a number and None   *)
(* can be compared with each other the way Python compares them.  A dict   *)
(* is a function whose DOMAIN is the dict's key set.  A Feature object is  *)
(* an entry of `heap`; a reference to it is its index in `heap`.           *)
(***************************************************************************)
EXTENDS Integers, Sequences, FiniteSets, TLC

VARIABLES heap, id_to_feature, class_to_features, model_to_features,
          unknown_anatomy, errors, registered, failed, call, frames, taken

vars == <<heap, id_to_feature, class_to_features, model_to_features,
          unknown_anatomy, errors, registered, failed, call, frames, taken>>

\* the calls of __process_shape_list that have not returned, and the number of
\* shapes their loops have taken from the slide
layer == <<frames, taken>>

index == <<id_to_feature, class_to_features, model_to_features, unknown_anatomy>>

(***************************************************************************)
(* Bounds of the model.                                                    *)
(***************************************************************************)
\* add_feature calls in one run of the lookups
MaxAdds == 2
\* Features registered in one run of the resolution
MaxFeatures == 3
\* length of the candidate layer list handed to find_features_by_anatomical_id
MaxLayers == 2
\* length of the identifier list handed to feature_ids
MaxIds == 2
\* distinct failing (anatomical_id, anatomical_layers) pairs in one run
MaxUnknown == 2
\* shapes and TreeLists below the TreeList of one slide
MaxShapes == 4

(***************************************************************************)
(* Python values.                                                          *)
(***************************************************************************)
None == [t |-> "none"]

StrV(s) == [t |-> "str", v |-> s]

IntV(n) == [t |-> "int", v |-> n]

Names == {"a", "b"}

\* dict.get(key, default)
DictGet(d, k, default) == IF k \in DOMAIN d THEN d[k] ELSE default

\* d[key] = value
DictPut(d, k, v) == [j \in DOMAIN d \cup {k} |-> IF j = k THEN v ELSE d[j]]

\* d.pop(key) for a key of d: the dict that is left
DictPop(d, k) == [j \in DOMAIN d \ {k} |-> d[j]]

\* defaultdict(list)[key].append(value)
ListAppend(d, k, v) == DictPut(d, k, Append(DictGet(d, k, <<>>), v))

RECURSIVE SeqsUpTo(_, _)
\* the sequences over S of length at most n
SeqsUpTo(S, n) ==
    IF n = 0 THEN {<<>>}
    ELSE LET shorter == SeqsUpTo(S, n - 1)
         IN  shorter \cup {Append(s, x) : s \in {t \in shorter : Len(t) = n - 1}, x \in S}

(***************************************************************************)
(* Geometry: the two operations of the geometry library the code uses.     *)
(* A geometry is the box [lo, hi] on a line; its centroid is kept doubled  *)
(* so that it stays an integer.  contains() is true of interior points     *)
(* only: a point on the boundary is not contained.                         *)
(***************************************************************************)
Box(lo, hi) == [geom_type |-> "Polygon", lo |-> lo, hi |-> hi]

Geometries == {Box(0, 2), Box(0, 1)}

centroid(geometry) == geometry.lo + geometry.hi

contains(geometry, point) == 2 * geometry.lo < point /\ point < 2 * geometry.hi

(***************************************************************************)
(* Feature                                                                 *)
(***************************************************************************)
\* Feature.__init__: the properties are copied and the two reserved keys set
Feature(feature_id, geometry, properties) ==
    [feature_id   |-> feature_id,
     geometry     |-> geometry,
     properties   |-> DictPut(DictPut(properties, "featureId", IntV(feature_id)),
                              "geometry", StrV(geometry.geom_type)),
     has_children |-> FALSE]

\* Feature.id
id(feature) == DictGet(feature.properties, "id", None)

\* Feature.models
models(feature) == DictGet(feature.properties, "models", None)

get_property(feature, property, default) == DictGet(feature.properties, property, default)

\* has_property as a key test: property in properties
has_property_key(feature, property) == property \in DOMAIN feature.properties

has_property(feature, property) ==
    DictGet(feature.properties, property, StrV("")) /= StrV("")

\* del_property that leaves the key in place
del_property_kept(feature, property) == feature

\* the Feature after del_property(property)
del_property(feature, property) ==
    IF property \in DOMAIN feature.properties
    THEN [feature EXCEPT !.properties = DictPop(feature.properties, property)]
    ELSE feature

\* set_property without the test for None: the value is always stored
set_property_stored(feature, property, value) ==
    [feature EXCEPT !.properties = DictPut(feature.properties, property, value)]

\* the Feature after set_property(property, value)
set_property(feature, property, value) ==
    IF value = None
    THEN del_property(feature, property)
    ELSE [feature EXCEPT !.properties = DictPut(feature.properties, property, value)]

(***************************************************************************)
(* FeatureMap                                                              *)
(***************************************************************************)
\* add_feature with the three tests chained by elif
add_feature_elif(feature, ref) ==
    /\ id_to_feature' =
          IF id(feature) /= None /\ ~has_property(feature, "class")
          THEN DictPut(id_to_feature, id(feature), ref)
          ELSE id_to_feature
    /\ class_to_features' =
          IF has_property(feature, "class")
          THEN ListAppend(class_to_features, get_property(feature, "class", None), ref)
          ELSE class_to_features
    /\ model_to_features' =
          IF models(feature) /= None
          THEN ListAppend(model_to_features, models(feature), ref)
          ELSE model_to_features

\* add_feature that keeps the Feature an id was first registered with
add_feature_first(feature, ref) ==
    /\ id_to_feature' =
          IF id(feature) /= None /\ id(feature) \notin DOMAIN id_to_feature
          THEN DictPut(id_to_feature, id(feature), ref)
          ELSE id_to_feature
    /\ class_to_features' =
          IF has_property(feature, "class")
          THEN ListAppend(class_to_features, get_property(feature, "class", None), ref)
          ELSE class_to_features
    /\ model_to_features' =
          IF models(feature) /= None
          THEN ListAppend(model_to_features, models(feature), ref)
          ELSE model_to_features

\* FeatureMap.add_feature, for the Feature `feature` that `ref` refers to
add_feature(feature, ref) ==
    /\ id_to_feature' =
          IF id(feature) /= None
          THEN DictPut(id_to_feature, id(feature), ref)
          ELSE id_to_feature
    /\ class_to_features' =
          IF has_property(feature, "class")
          THEN ListAppend(class_to_features, get_property(feature, "class", None), ref)
          ELSE class_to_features
    /\ model_to_features' =
          IF models(feature) /= None
          THEN ListAppend(model_to_features, models(feature), ref)
          ELSE model_to_features

\* FeatureMap.duplicate_id: add_feature stores Features only, so get() is None
\* exactly for a missing key
duplicate_id(identifier) == identifier \in DOMAIN id_to_feature

\* features that looks among the classes first
features_class_first(identifier) ==
    IF identifier \in DOMAIN class_to_features
    THEN class_to_features[identifier]
    ELSE IF identifier \in DOMAIN id_to_feature
         THEN <<id_to_feature[identifier]>>
         ELSE <<>>

\* FeatureMap.features
features(identifier) ==
    IF identifier \notin DOMAIN id_to_feature
    THEN DictGet(class_to_features, identifier, <<>>)
    ELSE <<id_to_feature[identifier]>>

RECURSIVE feature_ids_once(_)
\* feature_ids that skips an identifier it meets again
feature_ids_once(ids) ==
    IF ids = <<>> THEN <<>>
    ELSE LET front == SubSeq(ids, 1, Len(ids) - 1)
             last == ids[Len(ids)]
             found == IF \E i \in 1..Len(front) : front[i] = last
                      THEN <<>>
                      ELSE features(last)
         IN  feature_ids_once(front) \o [i \in 1..Len(found) |-> heap[found[i]].feature_id]

RECURSIVE feature_ids(_)
\* FeatureMap.feature_ids
feature_ids(ids) ==
    IF ids = <<>> THEN <<>>
    ELSE LET found == features(Head(ids))
         IN  [i \in 1..Len(found) |-> heap[found[i]].feature_id] \o feature_ids(Tail(ids))

RECURSIVE included_features_once(_, _, _, _)
\* the nested loops that include a candidate once, however many layer
\* features contain it
included_features_once(layer_features, candidates, i, j) ==
    IF i > Len(layer_features) THEN <<>>
    ELSE IF j > Len(candidates)
    THEN included_features_once(layer_features, candidates, i + 1, 1)
    ELSE LET layer_feature == heap[layer_features[i]]
             feature == heap[candidates[j]]
             rest == included_features_once(layer_features, candidates, i, j + 1)
         IN  IF /\ contains(layer_feature.geometry, centroid(feature.geometry))
                /\ \A k \in 1..Len(rest) : rest[k] /= candidates[j]
             THEN <<candidates[j]>> \o rest
             ELSE rest

RECURSIVE included_features(_, _, _, _)
\* the two nested loops of find_features_by_anatomical_id over one layer,
\* from the i-th layer feature and the j-th candidate feature on
included_features(layer_features, candidates, i, j) ==
    IF i > Len(layer_features) THEN <<>>
    ELSE IF j > Len(candidates) THEN included_features(layer_features, candidates, i + 1, 1)
    ELSE LET layer_feature == heap[layer_features[i]]
             feature == heap[candidates[j]]
             rest == included_features(layer_features, candidates, i, j + 1)
         IN  IF contains(layer_feature.geometry, centroid(feature.geometry))
             THEN <<candidates[j]>> \o rest
             ELSE rest

RECURSIVE search_layers_to_end(_, _, _)
\* the loop over the layers without its break
search_layers_to_end(candidates, anatomical_layers, n) ==
    LET layer_features == DictGet(model_to_features, anatomical_layers[n], <<>>)
        included == included_features(layer_features, candidates, 1, 1)
    IN  IF n = Len(anatomical_layers)
        THEN [features |-> included, consulted |-> n]
        ELSE search_layers_to_end(candidates, anatomical_layers, n + 1)

RECURSIVE search_layers_first(_, _, _)
\* the loop that, finding no layer with a single match, answers with the
\* matches of the first layer
search_layers_first(candidates, anatomical_layers, n) ==
    LET layer_features == DictGet(model_to_features, anatomical_layers[n], <<>>)
        included == included_features(layer_features, candidates, 1, 1)
        first_features == DictGet(model_to_features, anatomical_layers[1], <<>>)
    IN  IF Len(included) = 1
        THEN [features |-> included, consulted |-> n]
        ELSE IF n = Len(anatomical_layers)
        THEN [features |-> included_features(first_features, candidates, 1, 1),
              consulted |-> n]
        ELSE search_layers_first(candidates, anatomical_layers, n + 1)

RECURSIVE search_layers(_, _, _)
\* the loop of find_features_by_anatomical_id over the layers, from the n-th on
search_layers(candidates, anatomical_layers, n) ==
    LET layer_features == DictGet(model_to_features, anatomical_layers[n], <<>>)
        included == included_features(layer_features, candidates, 1, 1)
    IN  IF Len(included) = 1 \/ n = Len(anatomical_layers)
        THEN [features |-> included, consulted |-> n]
        ELSE search_layers(candidates, anatomical_layers, n + 1)

\* the resolution that, given no layers, keeps the candidates that contain a
\* candidate
anatomical_features_filtered(anatomical_id, anatomical_layers) ==
    IF Len(anatomical_layers) = 0
    THEN [features |-> included_features(DictGet(model_to_features, anatomical_id, <<>>),
                                         DictGet(model_to_features, anatomical_id, <<>>),
                                         1, 1),
          consulted |-> 0]
    ELSE search_layers(DictGet(model_to_features, anatomical_id, <<>>),
                       anatomical_layers, 1)

\* the list find_features_by_anatomical_id returns, and the number of layers
\* whose features it fetched
anatomical_features(anatomical_id, anatomical_layers) ==
    IF Len(anatomical_layers) = 0
    THEN [features |-> DictGet(model_to_features, anatomical_id, <<>>), consulted |-> 0]
    ELSE search_layers(DictGet(model_to_features, anatomical_id, <<>>),
                       anatomical_layers, 1)

\* x in list
InList(x, list) == \E i \in 1..Len(list) : list[i] = x

\* the diagnostics find_features_by_anatomical_id logs for a result
new_errors(found, anatomical_id, anatomical_layers) ==
    IF Len(found) = 0 /\ ~InList(<<anatomical_id, anatomical_layers>>, unknown_anatomy)
    THEN <<<<anatomical_id, anatomical_layers>>>>
    ELSE <<>>

\* the failing pair is not remembered
new_unknown_forgotten(found, anatomical_id, anatomical_layers) == <<>>

\* the entries find_features_by_anatomical_id appends to __unknown_anatomy
new_unknown(found, anatomical_id, anatomical_layers) ==
    IF Len(found) = 0 /\ ~InList(<<anatomical_id, anatomical_layers>>, unknown_anatomy)
    THEN <<<<anatomical_id, anatomical_layers>>>>
    ELSE <<>>

(***************************************************************************)
(* The state after construction: an empty FeatureMap and no Feature.       *)
(***************************************************************************)
EmptyDict == <<>>

NoCall == [op |-> "none"]

InitFeatureMap ==
    /\ id_to_feature = EmptyDict
    /\ class_to_features = EmptyDict
    /\ model_to_features = EmptyDict
    /\ unknown_anatomy = <<>>
    /\ errors = <<>>
    /\ registered = <<>>
    /\ failed = {}

\* no slide is being processed
InitLayer ==
    /\ frames = <<>>
    /\ taken = 0

(***************************************************************************)
(* One Feature and the calls that read and change its properties.          *)
(***************************************************************************)
\* the keys and values the callers of one Feature use
FeatureKeys == {"class", "label", "featureId"}

FeatureValues == {None, StrV(""), StrV("a"), StrV("b")}

\* the property dicts a Feature is constructed from
FeatureDicts ==
    UNION {[S -> {None, StrV(""), StrV("a")}] : S \in SUBSET {"class", "label"}}

\* what a later call remembers of the call before it
Brief(c) ==
    IF c.op = "set_property"
    THEN [op |-> c.op, ref |-> c.ref, property |-> c.property, value |-> c.value,
          had |-> c.property \in DOMAIN c.before]
    ELSE IF c.op = "add_feature" THEN [op |-> c.op, ref |-> c.ref]
    ELSE [op |-> c.op]

InitFeature ==
    /\ InitFeatureMap
    /\ \E geometry \in Geometries, properties \in FeatureDicts :
           heap = <<Feature(1, geometry, properties)>>
    /\ call = NoCall
    /\ InitLayer

SetProperty(ref, property, value) ==
    /\ heap' = [heap EXCEPT ![ref] = set_property(heap[ref], property, value)]
    /\ call' = [op |-> "set_property", ref |-> ref, property |-> property,
                value |-> value, before |-> heap[ref].properties]
    /\ UNCHANGED <<index, errors, registered, failed>>
    /\ UNCHANGED layer

DelProperty(ref, property) ==
    /\ heap' = [heap EXCEPT ![ref] = del_property(heap[ref], property)]
    /\ call' = [op |-> "del_property", ref |-> ref, property |-> property,
                result |-> get_property(heap[ref], property, None),
                before |-> heap[ref].properties]
    /\ UNCHANGED <<index, errors, registered, failed>>
    /\ UNCHANGED layer

HasProperty(ref, property) ==
    /\ call' = [op |-> "has_property", ref |-> ref, property |-> property,
                result |-> has_property(heap[ref], property),
                after |-> Brief(call)]
    /\ UNCHANGED <<heap, index, errors, registered, failed>>
    /\ UNCHANGED layer

NextFeature ==
    \/ \E ref \in DOMAIN heap, property \in FeatureKeys, value \in FeatureValues :
           SetProperty(ref, property, value)
    \/ \E ref \in DOMAIN heap, property \in FeatureKeys : DelProperty(ref, property)
    \/ \E ref \in DOMAIN heap, property \in FeatureKeys : HasProperty(ref, property)

SpecFeature == InitFeature /\ [][NextFeature]_vars

(***************************************************************************)
(* C9: set_property(k, None) followed by has_property(k) returns false,    *)
(* for every key and every state of the properties before: in the state    *)
(* set_property(k, None) leaves, has_property(k) is false, and a           *)
(* has_property(k) call made right after it returned false.                *)
(***************************************************************************)
ClearedPropertyIsAbsent ==
    /\ (call.op = "set_property" /\ call.value = None)
          => ~has_property(heap[call.ref], call.property)
    /\ (/\ call.op = "has_property"
        /\ call.after.op = "set_property"
        /\ call.after.value = None
        /\ call.after.ref = call.ref
        /\ call.after.property = call.property)
          => call.result = FALSE

\* has_property(k) was called right after set_property(k, None) cleared a key
\* that was in the mapping
ClearedPropertyWitness ==
    /\ call.op = "has_property"
    /\ call.after.op = "set_property"
    /\ call.after.value = None
    /\ call.after.property = call.property
    /\ call.after.had
    /\ call.result = FALSE

(***************************************************************************)
(* C10 as claimed: set_property(key, value) with an absent (None) or an    *)
(* empty ('') value leaves the property mapping as del_property(key) would *)
(* leave it: the key is not in the mapping, every other key is unchanged.  *)
(***************************************************************************)
IsDeletion(before, after, key) ==
    /\ key \notin DOMAIN after
    /\ DOMAIN after = DOMAIN before \ {key}
    /\ \A k \in DOMAIN after : after[k] = before[k]

EmptyValueDeletes ==
    (call.op = "set_property" /\ call.value \in {None, StrV("")})
        => /\ IsDeletion(call.before, heap[call.ref].properties, call.property)
           /\ heap[call.ref].properties
                  = del_property([properties |-> call.before], call.property).properties

(***************************************************************************)
(* C10 as amended: set_property(key, None) leaves the property mapping as  *)
(* del_property(key) would leave it (the key is not in the mapping, every  *)
(* other key is unchanged); set_property(key, '') stores the empty string  *)
(* under the key and leaves every other key unchanged.                     *)
(***************************************************************************)
NoneValueDeletes ==
    /\ (call.op = "set_property" /\ call.value = None)
          => /\ IsDeletion(call.before, heap[call.ref].properties, call.property)
             /\ heap[call.ref].properties
                    = del_property([properties |-> call.before], call.property).properties
    /\ (call.op = "set_property" /\ call.value = StrV(""))
          => /\ call.property \in DOMAIN heap[call.ref].properties
             /\ heap[call.ref].properties[call.property] = StrV("")
             /\ DOMAIN heap[call.ref].properties = DOMAIN call.before \cup {call.property}
             /\ \A k \in DOMAIN call.before \ {call.property} :
                    heap[call.ref].properties[k] = call.before[k]

\* set_property(key, None) was called on a key that held a value
NoneValueDeletesWitness ==
    /\ call.op = "set_property"
    /\ call.value = None
    /\ call.property \in DOMAIN call.before
    /\ call.before[call.property] = StrV("a")

(***************************************************************************)
(* The FeatureMap and its callers.                                         *)
(***************************************************************************)
\* a caller constructs a Feature, numbered after the ones before it, and
\* registers it
Register(geometry, properties, cap) ==
    /\ Len(registered) < cap
    /\ LET ref == Len(heap) + 1
           feature == Feature(ref, geometry, properties)
       IN  /\ heap' = Append(heap, feature)
           /\ add_feature(feature, ref)
           /\ registered' = Append(registered, ref)
           /\ call' = [op |-> "add_feature", ref |-> ref]
    /\ UNCHANGED <<unknown_anatomy, errors, failed>>
    /\ UNCHANGED layer

\* a caller registers a Feature that is registered already
RegisterAgain(ref) ==
    /\ Len(registered) < MaxAdds
    /\ add_feature(heap[ref], ref)
    /\ registered' = Append(registered, ref)
    /\ call' = [op |-> "add_feature", ref |-> ref]
    /\ UNCHANGED <<heap, unknown_anatomy, errors, failed>>
    /\ UNCHANGED layer

\* the dict after d[key], which on a defaultdict(list) inserts a missing key
after_getitem(d, key) == IF key \in DOMAIN d THEN d ELSE DictPut(d, key, <<>>)

\* the dict after d.get(key, default), which inserts nothing
after_get(d, key) == d

RECURSIVE after_gets(_, _)
\* the dict after d.get(key, default) for each key of a list
after_gets(d, keys) ==
    IF keys = <<>> THEN d ELSE after_gets(after_get(d, Head(keys)), Tail(keys))

DuplicateId(identifier) ==
    /\ call' = [op |-> "duplicate_id", id |-> identifier,
                result |-> duplicate_id(identifier)]
    /\ UNCHANGED <<heap, index, errors, registered, failed>>
    /\ UNCHANGED layer

Features(identifier) ==
    /\ call' = [op |-> "features", id |-> identifier, result |-> features(identifier),
                after |-> Brief(call)]
    /\ class_to_features' = IF identifier \in DOMAIN id_to_feature
                             THEN class_to_features
                             ELSE after_get(class_to_features, identifier)
    /\ UNCHANGED <<heap, id_to_feature, model_to_features, unknown_anatomy,
                   errors, registered, failed>>
    /\ UNCHANGED layer

FeatureIds(ids) ==
    /\ call' = [op |-> "feature_ids", ids |-> ids, result |-> feature_ids(ids)]
    /\ class_to_features' =
          after_gets(class_to_features,
                     SelectSeq(ids, LAMBDA identifier : identifier \notin DOMAIN id_to_feature))
    /\ UNCHANGED <<heap, id_to_feature, model_to_features, unknown_anatomy,
                   errors, registered, failed>>
    /\ UNCHANGED layer

\* find_features_by_anatomical_id; a run records at most `cap` failing pairs
Resolve(anatomical_id, anatomical_layers, cap) ==
    \E found \in {anatomical_features(anatomical_id, anatomical_layers)} :
    LET pair == <<anatomical_id, anatomical_layers>>
        logged == new_errors(found.features, anatomical_id, anatomical_layers)
    IN  /\ Len(found.features) = 0 /\ ~InList(pair, unknown_anatomy)
              => Len(unknown_anatomy) < cap
        /\ errors' = errors \o logged
        /\ unknown_anatomy' = unknown_anatomy
              \o new_unknown(found.features, anatomical_id, anatomical_layers)
        /\ failed' = IF Len(found.features) = 0 THEN failed \cup {pair} ELSE failed
        /\ call' = [op |-> "find_features_by_anatomical_id",
                    anatomical_id |-> anatomical_id,
                    anatomical_layers |-> anatomical_layers,
                    result |-> found.features,
                    consulted |-> found.consulted,
                    logged |-> Len(logged),
                    failed_before |-> pair \in failed]
        /\ model_to_features' =
              after_gets(model_to_features,
                         <<anatomical_id>> \o SubSeq(anatomical_layers, 1, found.consulted))
        /\ UNCHANGED <<heap, id_to_feature, class_to_features, registered, layer>>

Init ==
    /\ InitFeatureMap
    /\ InitLayer
    /\ heap = <<>>
    /\ call = NoCall

\* the identifiers callers ask for
Identifiers == {StrV(n) : n \in Names}

\* the identifier lists handed to feature_ids
IdLists == SeqsUpTo(Identifiers, MaxIds)

\* the candidate layer lists handed to find_features_by_anatomical_id
LayerLists == SeqsUpTo(Identifiers, MaxLayers)

\* the candidate layer lists of the runs that follow the diagnostics
ShortLayerLists == SeqsUpTo(Identifiers, 1)

\* the property dicts of the Features of the lookups: id, class and models
IndexDicts ==
    {d \in UNION {[S -> {StrV(""), StrV("a"), StrV("b")}] : S \in SUBSET {"id", "class", "models"}} :
        /\ "id" \in DOMAIN d => d["id"] /= StrV("")
        /\ "class" \in DOMAIN d => d["class"] /= StrV("b")
        /\ "models" \in DOMAIN d => d["models"] = StrV("a")}

Next ==
    \/ \E properties \in IndexDicts : Register(Box(0, 2), properties, MaxAdds)
    \/ \E ref \in DOMAIN heap : RegisterAgain(ref)
    \/ \E identifier \in Identifiers : DuplicateId(identifier)
    \/ \E identifier \in Identifiers : Features(identifier)
    \/ \E ids \in IdLists : FeatureIds(ids)

Spec == Init /\ [][Next]_vars

\* the property dicts of the Features of the resolution: models only
ResolveDicts == {[models |-> StrV(n)] : n \in Names}

\* Features are registered and resolved in any order, up to the first call
\* that fails; the runs of SpecUnknown go on after it.
NextResolve ==
    \/ \E geometry \in Geometries, properties \in ResolveDicts :
           Register(geometry, properties, MaxFeatures)
    \/ \E anatomical_id \in Identifiers, anatomical_layers \in LayerLists :
           /\ unknown_anatomy = <<>>
           /\ Resolve(anatomical_id, anatomical_layers, 1)

SpecResolve == Init /\ [][NextResolve]_vars

NextUnknown ==
    \/ \E geometry \in Geometries, properties \in ResolveDicts :
           Register(geometry, properties, MaxAdds)
    \/ \E anatomical_id \in Identifiers, anatomical_layers \in ShortLayerLists :
           Resolve(anatomical_id, anatomical_layers, MaxUnknown)

SpecUnknown == Init /\ [][NextUnknown]_vars

\* the property dicts of the Features of the queries: id, class and models
QueryDicts == [{"id", "class", "models"} -> {StrV(""), StrV("a")}]

\* Features are registered and the four queries called in any order, with
\* keys that are present and keys that are missing
NextQueries ==
    \/ \E properties \in QueryDicts : Register(Box(0, 2), properties, MaxAdds)
    \/ \E identifier \in Identifiers : DuplicateId(identifier)
    \/ \E identifier \in Identifiers : Features(identifier)
    \/ \E ids \in IdLists : FeatureIds(ids)
    \/ \E anatomical_id \in Identifiers, anatomical_layers \in ShortLayerLists :
           Resolve(anatomical_id, anatomical_layers, 1)

SpecQueries == Init /\ [][NextQueries]_vars

(***************************************************************************)
(* PowerpointLayer.__process_shape_list.  A TreeList is met one element at *)
(* a time, the way the loop meets it: an entry of `frames` is one call,    *)
(* with the elements of its TreeList met so far and its list `features`.   *)
(* The value None of grouped_feature is the empty sequence, a Feature the  *)
(* sequence that holds its reference.                                      *)
(***************************************************************************)
BoolV(b) == [t |-> "bool", v |-> b]

\* bool(value)
truthy(value) == value \notin {None, BoolV(FALSE), StrV(""), IntV(0)}

\* mapmaker.flatmap.layers.FEATURES_TILE_LAYER
FEATURES_TILE_LAYER == StrV("features")

\* the properties of the shapes of a slide: unmarked, or with one of the
\* markers the loop looks for, or with a tile layer of their own
ShapeDicts ==
    {EmptyDict,
     [error |-> StrV("a")],
     [invisible |-> BoolV(TRUE)],
     [path |-> StrV("a")],
     [exclude |-> BoolV(TRUE)],
     [exclude |-> BoolV(FALSE)],
     DictPut(EmptyDict, "tile-layer", StrV("a"))}

\* the shapes of a slide that are no TreeList
Shapes == {[kind |-> "shape", geometry |-> Box(0, 2), properties |-> properties] :
              properties \in ShapeDicts}

\* the first element of a TreeList, which the loop skips
FirstShapes == {[kind |-> "shape", geometry |-> Box(0, 2), properties |-> EmptyDict]}

\* the properties after the default of 'tile-layer'
with_tile_layer(properties) ==
    IF "tile-layer" \notin DOMAIN properties
    THEN DictPut(properties, "tile-layer", FEATURES_TILE_LAYER)
    ELSE properties

\* the branches that test 'exclude' the way they test the other markers
passed_on_key(properties) ==
    \/ "error" \in DOMAIN properties
    \/ "invisible" \in DOMAIN properties
    \/ "path" \in DOMAIN properties
    \/ "exclude" \in DOMAIN properties

\* the branches of the loop that pass: the shape gives no Feature
passed(properties) ==
    \/ "error" \in DOMAIN properties
    \/ "invisible" \in DOMAIN properties
    \/ "path" \in DOMAIN properties
    \/ truthy(DictGet(properties, "exclude", BoolV(FALSE)))

\* features.insert(0, feature)
insert_feature(collected, ref) == <<ref>> \o collected

\* features.append(feature)
append_feature(collected, ref) == Append(collected, ref)

\* the branch that appends grouped_feature without testing it, None as 0
after_group_untested(collected, group_features, grouped_feature) ==
    Append(collected, IF grouped_feature /= <<>> THEN grouped_feature[1] ELSE 0)

\* the branch that, given no grouped Feature, extends the list with the
\* Features of the group
after_group_flattened(collected, group_features, grouped_feature) ==
    IF grouped_feature /= <<>>
    THEN Append(collected, grouped_feature[1])
    ELSE collected \o group_features

\* the list `features`, here `collected`, after the branch of the loop for a TreeList
after_group(collected, group_features, grouped_feature) ==
    IF grouped_feature /= <<>>
    THEN Append(collected, grouped_feature[1])
    ELSE collected

\* flatmap.new_feature: the Feature gets the next number and is registered
new_feature(geometry, properties, has_children) ==
    LET ref == Len(heap) + 1
        feature == [Feature(ref, geometry, properties) EXCEPT !.has_children = has_children]
    IN  /\ heap' = Append(heap, feature)
        /\ add_feature(feature, ref)
        /\ registered' = Append(registered, ref)

\* what add_features('Group', group_features) returns: None for no Features, else
\* the Feature it makes for the group when its policy, `aggregate`, says so
grouped_feature_of(group_features, aggregate) ==
    IF group_features /= <<>> /\ aggregate THEN <<Len(heap) + 1>> ELSE <<>>

\* add_features('Group', group_features)
add_features(group_features, aggregate) ==
    IF grouped_feature_of(group_features, aggregate) /= <<>>
    THEN new_feature(Box(0, 2), with_tile_layer(EmptyDict), TRUE)
    ELSE UNCHANGED <<heap, id_to_feature, class_to_features, model_to_features,
                     registered>>

\* process calls __process_shape_list with the TreeList of the slide
Process(first) ==
    /\ frames = <<>>
    /\ call = NoCall
    /\ frames' = <<[shapes |-> <<first>>, features |-> <<>>]>>
    /\ call' = [op |-> "process"]
    /\ UNCHANGED <<heap, index, errors, registered, failed, taken>>

\* the loop of the innermost call meets a shape that is no TreeList
Shape(shape) ==
    /\ frames /= <<>>
    /\ taken < MaxShapes
    /\ LET top == frames[Len(frames)]
           properties == with_tile_layer(shape.properties)
       IN  /\ IF passed(properties)
              THEN /\ frames' = [frames EXCEPT ![Len(frames)].shapes = Append(@, shape)]
                   /\ UNCHANGED <<heap, id_to_feature, class_to_features,
                                  model_to_features, registered>>
              ELSE /\ new_feature(shape.geometry, properties, FALSE)
                   /\ frames' = [frames EXCEPT ![Len(frames)] =
                                    [shapes |-> Append(@.shapes, shape),
                                     features |-> append_feature(@.features, Len(heap) + 1)]]
           /\ call' = [op |-> "shape", shape |-> shape,
                       features_before |-> top.features,
                       heap_before |-> heap,
                       registered_before |-> registered]
    /\ taken' = taken + 1
    /\ UNCHANGED <<unknown_anatomy, errors, failed>>

\* the loop of the innermost call meets a TreeList and calls
\* __process_shape_list with it
Group(first) ==
    /\ frames /= <<>>
    /\ taken < MaxShapes
    /\ frames' = Append(frames, [shapes |-> <<first>>, features |-> <<>>])
    /\ taken' = taken + 1
    /\ call' = [op |-> "group"]
    /\ UNCHANGED <<heap, index, errors, registered, failed>>

\* the loop of the innermost call ends and the call returns its list, to the
\* branch for a TreeList of the call before it
ReturnGroup(aggregate) ==
    /\ Len(frames) > 1
    /\ LET top == frames[Len(frames)]
           outer == frames[Len(frames) - 1]
           group_features == top.features
           grouped_feature == grouped_feature_of(group_features, aggregate)
       IN  /\ add_features(group_features, aggregate)
           /\ frames' = [SubSeq(frames, 1, Len(frames) - 1) EXCEPT ![Len(frames) - 1] =
                            [shapes |-> Append(outer.shapes,
                                               [kind |-> "TreeList",
                                                grouped_feature |-> grouped_feature]),
                             features |-> after_group(outer.features, group_features,
                                                      grouped_feature)]]
           /\ call' = [op |-> "add_features",
                       shapes |-> top.shapes,
                       features |-> group_features,
                       result |-> grouped_feature,
                       features_before |-> outer.features,
                       heap_before |-> heap]
    /\ UNCHANGED <<unknown_anatomy, errors, failed, taken>>

\* the loop of the outermost call ends and the call returns its list to process
Return ==
    /\ Len(frames) = 1
    /\ frames' = <<>>
    /\ call' = [op |-> "return", shapes |-> frames[1].shapes,
                result |-> frames[1].features]
    /\ UNCHANGED <<heap, index, errors, registered, failed, taken>>

\* the TreeList of one slide is processed, whatever its shapes and TreeLists
NextLayer ==
    \/ \E first \in FirstShapes : Process(first)
    \/ \E shape \in Shapes : Shape(shape)
    \/ \E first \in FirstShapes : Group(first)
    \/ \E aggregate \in BOOLEAN : ReturnGroup(aggregate)
    \/ Return

SpecLayer == Init /\ [][NextLayer]_vars

(***************************************************************************)
(* What the claims speak of, stated over the calls made so far.            *)
(***************************************************************************)
\* the non-empty strings a property may hold
Labels == {StrV(n) : n \in Names}

\* the Features registered with `value` under `property`, one entry per
\* add_feature call, in the order of the calls
RegisteredWith(property, value) ==
    SelectSeq(registered,
              LAMBDA ref : /\ property \in DOMAIN heap[ref].properties
                           /\ heap[ref].properties[property] = value)

\* the (container, candidate) pairs of a layer in which the container's
\* geometry contains the candidate's centroid
Containments(anatomical_id, anatomical_layer) ==
    LET containers == RegisteredWith("models", anatomical_layer)
        candidates == RegisteredWith("models", anatomical_id)
    IN  {p \in (1..Len(containers)) \X (1..Len(candidates)) :
            LET box == heap[containers[p[1]]].geometry
                at == heap[candidates[p[2]]].geometry
            IN  contains(box, centroid(at))}

IsResolve == call.op = "find_features_by_anatomical_id"

(***************************************************************************)
(* C1: for a non-empty list of candidate layers,                           *)
(* find_features_by_anatomical_id stops at the first layer, in the order   *)
(* supplied, with exactly one containment match and returns that match:    *)
(* no layer after it is consulted, and the layers before it, with no match *)
(* or with several, do not determine the result.                           *)
(***************************************************************************)
StopsAtFirstUniqueLayer ==
    IsResolve =>
        \A n \in 1..Len(call.anatomical_layers) :
            (/\ Cardinality(Containments(call.anatomical_id, call.anatomical_layers[n])) = 1
             /\ \A m \in 1..(n - 1) :
                    Cardinality(Containments(call.anatomical_id,
                                             call.anatomical_layers[m])) /= 1)
            => /\ call.consulted = n
               /\ \E p \in Containments(call.anatomical_id, call.anatomical_layers[n]) :
                      call.result = <<RegisteredWith("models", call.anatomical_id)[p[2]]>>

\* layers [A, B]: A has two or more matches, B exactly one, which is returned
StopsAtFirstUniqueLayerWitness ==
    /\ IsResolve
    /\ Len(call.anatomical_layers) = 2
    /\ Cardinality(Containments(call.anatomical_id, call.anatomical_layers[1])) >= 2
    /\ Cardinality(Containments(call.anatomical_id, call.anatomical_layers[2])) = 1
    /\ Len(call.result) = 1
    /\ call.consulted = 2

(***************************************************************************)
(* C2: find_features_by_anatomical_id(id, []) returns the Features         *)
(* registered with models == id, in registration order, whatever their     *)
(* geometry, and the empty list when no Feature was registered with id.    *)
(***************************************************************************)
EmptyLayersReturnAllModels ==
    (IsResolve /\ call.anatomical_layers = <<>>)
        => /\ call.result = RegisteredWith("models", call.anatomical_id)
           /\ call.result = DictGet(model_to_features, call.anatomical_id, <<>>)

\* resolved with no layers: two Features of different geometry are returned
EmptyLayersReturnAllModelsWitness ==
    /\ IsResolve
    /\ call.anatomical_layers = <<>>
    /\ Len(call.result) = 2
    /\ heap[call.result[1]].geometry /= heap[call.result[2]].geometry

(***************************************************************************)
(* C3: an empty result is returned as an empty list, and over the calls of *)
(* find_features_by_anatomical_id on one FeatureMap exactly one diagnostic *)
(* is logged per distinct failing (anatomical_id, anatomical_layers) pair: *)
(* the first failing call with a pair logs, a later failing call with an   *)
(* equal pair does not, and a call with a non-empty result never logs.     *)
(***************************************************************************)
OneDiagnosticPerFailingPair ==
    /\ \A i, j \in 1..Len(errors) : errors[i] = errors[j] => i = j
    /\ {errors[i] : i \in 1..Len(errors)} = failed
    /\ IsResolve =>
          call.logged = IF call.result = <<>> /\ ~call.failed_before THEN 1 ELSE 0

\* two distinct pairs have failed and logged, and the last call failed again
\* with one of them and logged nothing
OneDiagnosticPerFailingPairWitness ==
    /\ IsResolve
    /\ call.result = <<>>
    /\ call.failed_before
    /\ call.logged = 0
    /\ Len(errors) = 2

(***************************************************************************)
(* C4: right after add_feature(f), for f with a non-empty id,              *)
(* features(f.id) returns [f], whatever was registered before, also when f *)
(* has a class or another Feature's class equals f.id.                     *)
(***************************************************************************)
LookupAfterRegister ==
    /\ (call.op = "add_feature" /\ id(heap[call.ref]) \in Labels)
          => features(id(heap[call.ref])) = <<call.ref>>
    /\ (/\ call.op = "features"
        /\ call.after.op = "add_feature"
        /\ id(heap[call.after.ref]) = call.id)
          => call.result = <<call.after.ref>>

\* features(f.id) was called right after add_feature(f), where f has a class
\* and an earlier Feature has f.id as its class
LookupAfterRegisterWitness ==
    /\ call.op = "features"
    /\ call.after.op = "add_feature"
    /\ id(heap[call.after.ref]) = call.id
    /\ has_property(heap[call.after.ref], "class")
    /\ \E ref \in 1..(call.after.ref - 1) :
           get_property(heap[ref], "class", None) = call.id
    /\ call.result = <<call.after.ref>>

(***************************************************************************)
(* C5: after any sequence of add_feature calls, the id mapping holds for   *)
(* each id the Feature of the last call that carried that id and nothing   *)
(* else, and duplicate_id(id) is true exactly when a Feature with that id  *)
(* has been registered; add_feature is never refused.                      *)
(***************************************************************************)
LastWriteWins ==
    /\ \A identifier \in Labels :
          LET with == RegisteredWith("id", identifier)
          IN  /\ duplicate_id(identifier) <=> with /= <<>>
              /\ identifier \in DOMAIN id_to_feature <=> with /= <<>>
              /\ with /= <<>> => id_to_feature[identifier] = with[Len(with)]
    /\ DOMAIN id_to_feature \subseteq Labels
    /\ call.op = "duplicate_id" => (call.result <=> RegisteredWith("id", call.id) /= <<>>)
    /\ Len(registered) < MaxAdds => \A ref \in DOMAIN heap : ENABLED RegisterAgain(ref)

\* two Features were registered with one id; the mapping holds the second
LastWriteWinsWitness ==
    /\ \E identifier \in Labels :
          /\ Len(RegisteredWith("id", identifier)) = 2
          /\ RegisteredWith("id", identifier)[1] /= RegisteredWith("id", identifier)[2]
          /\ id_to_feature[identifier] = RegisteredWith("id", identifier)[2]
    /\ call.op = "duplicate_id"
    /\ call.result

(***************************************************************************)
(* C6: after any sequence of add_feature calls, the class mapping holds    *)
(* under each non-empty class label the Features registered with that      *)
(* class, and the models mapping under each model the Features registered  *)
(* with it: one entry per add_feature call, in the order of the calls, and *)
(* nothing is removed or reordered later.                                  *)
(***************************************************************************)
MultimapsFollowRegistration ==
    /\ \A label \in Labels :
          /\ DictGet(class_to_features, label, <<>>) = RegisteredWith("class", label)
          /\ DictGet(model_to_features, label, <<>>) = RegisteredWith("models", label)
    /\ DOMAIN class_to_features \subseteq Labels
    /\ DOMAIN model_to_features \subseteq Labels

\* one Feature with a class and a model was registered twice
MultimapsFollowRegistrationWitness ==
    \E label \in Labels, ref \in DOMAIN heap :
        /\ class_to_features = (label :> <<ref, ref>>)
        /\ Len(DictGet(model_to_features, label, <<>>)) = 2

(***************************************************************************)
(* C7: features(identifier) returns the one Feature the id mapping holds   *)
(* for identifier when it is a registered id, whatever class has that      *)
(* name; otherwise the Features of the class identifier in insertion       *)
(* order, and the empty list when identifier is neither.                   *)
(***************************************************************************)
LookupByIdThenClass ==
    call.op = "features" =>
        LET with == RegisteredWith("id", call.id)
        IN  call.result = IF with /= <<>>
                          THEN <<with[Len(with)]>>
                          ELSE RegisteredWith("class", call.id)

\* the identifier is the id of one Feature and the class of another
LookupByIdThenClassWitness ==
    /\ call.op = "features"
    /\ RegisteredWith("id", call.id) /= <<>>
    /\ RegisteredWith("class", call.id) /= <<>>
    /\ call.result /= RegisteredWith("class", call.id)

(***************************************************************************)
(* C8: feature_ids(ids) returns the numeric ids of features(identifier),   *)
(* in lookup order, for the identifiers in input order: an identifier      *)
(* that resolves to nothing contributes nothing, a repeated identifier     *)
(* contributes once per occurrence.                                        *)
(***************************************************************************)
RECURSIVE FoundBefore(_, _)
\* the number of Features the identifiers before the n-th resolve to
FoundBefore(ids, n) ==
    IF n = 1 THEN 0 ELSE FoundBefore(ids, n - 1) + Len(features(ids[n - 1]))

FeatureIdsConcatenate ==
    call.op = "feature_ids" =>
        /\ Len(call.result) = FoundBefore(call.ids, Len(call.ids) + 1)
        /\ \A n \in 1..Len(call.ids) :
              \A k \in 1..Len(features(call.ids[n])) :
                  call.result[FoundBefore(call.ids, n) + k]
                      = heap[features(call.ids[n])[k]].feature_id

\* an identifier that resolves to two Features was given twice
FeatureIdsConcatenateWitness ==
    /\ call.op = "feature_ids"
    /\ Len(call.ids) = 2
    /\ call.ids[1] = call.ids[2]
    /\ Len(features(call.ids[1])) = 2
    /\ Len(call.result) = 4

(***************************************************************************)
(* The match list of one layer, written from the registrations: one entry  *)
(* per pair of Containments, the pairs taken container by container and,   *)
(* within a container, candidate by candidate.                             *)
(***************************************************************************)
MatchList(anatomical_id, anatomical_layer) ==
    LET pairs == Containments(anatomical_id, anatomical_layer)
        candidates == RegisteredWith("models", anatomical_id)
        rank(p) == Cardinality({q \in pairs :
                       q[1] < p[1] \/ (q[1] = p[1] /\ q[2] <= p[2])})
    IN  [k \in 1..Cardinality(pairs) |->
            candidates[(CHOOSE p \in pairs : rank(p) = k)[2]]]

(***************************************************************************)
(* C13: when the layer list is non-empty and no layer has exactly one      *)
(* match, find_features_by_anatomical_id consults every layer and returns  *)
(* the match list of the last layer, which may be empty or hold two or     *)
(* more Features; the match lists of the earlier layers are discarded.     *)
(***************************************************************************)
LastLayerWhenNoneUnique ==
    (/\ IsResolve
     /\ call.anatomical_layers /= <<>>
     /\ \A n \in 1..Len(call.anatomical_layers) :
            Cardinality(Containments(call.anatomical_id, call.anatomical_layers[n])) /= 1)
    => /\ call.consulted = Len(call.anatomical_layers)
       /\ call.result = MatchList(call.anatomical_id,
                                  call.anatomical_layers[Len(call.anatomical_layers)])

\* two layers were given, the first with several matches and the last with
\* none, and the call returned the empty list
LastLayerWhenNoneUniqueWitness ==
    /\ IsResolve
    /\ Len(call.anatomical_layers) = 2
    /\ Cardinality(Containments(call.anatomical_id, call.anatomical_layers[1])) >= 2
    /\ Containments(call.anatomical_id, call.anatomical_layers[2]) = {}
    /\ call.consulted = 2
    /\ call.result = <<>>

(***************************************************************************)
(* C14: the match list of a layer holds one entry for every pair of a      *)
(* container of byModel[layer] and a candidate of byModel[anatomicalId]    *)
(* whose centroid the container's geometry contains, container by          *)
(* container and then candidate by candidate; a candidate inside k         *)
(* containers appears k times, so one candidate inside two containers      *)
(* gives a list of length 2, which does not stop the loop.                 *)
(***************************************************************************)
MatchListPerContainment ==
    (IsResolve /\ call.anatomical_layers /= <<>>)
    => /\ call.consulted \in 1..Len(call.anatomical_layers)
       /\ call.result = MatchList(call.anatomical_id,
                                  call.anatomical_layers[call.consulted])
       /\ Len(call.result) = Cardinality(Containments(call.anatomical_id,
                                  call.anatomical_layers[call.consulted]))
       /\ \A n \in 1..(call.consulted - 1) :
              Cardinality(Containments(call.anatomical_id, call.anatomical_layers[n])) /= 1

\* one candidate lies inside the two containers of the first of two layers:
\* the loop went on to the second layer and returned the candidate twice
MatchListPerContainmentWitness ==
    /\ IsResolve
    /\ Len(call.anatomical_layers) = 2
    /\ Len(RegisteredWith("models", call.anatomical_id)) = 1
    /\ Len(RegisteredWith("models", call.anatomical_layers[1])) = 2
    /\ Cardinality(Containments(call.anatomical_id, call.anatomical_layers[1])) = 2
    /\ call.consulted = 2
    /\ call.result = <<RegisteredWith("models", call.anatomical_id)[1],
                       RegisteredWith("models", call.anatomical_id)[1]>>

(***************************************************************************)
(* The steps that are calls of the four queries.                           *)
(***************************************************************************)
QueryOps == {"duplicate_id", "features", "feature_ids", "find_features_by_anatomical_id"}

(***************************************************************************)
(* C17 as stated: features, duplicate_id, feature_ids and                  *)
(* find_features_by_anatomical_id leave the state of the FeatureMap        *)
(* unchanged, for keys that are present and keys that are missing.         *)
(***************************************************************************)
QueriesKeepFeatureMap ==
    [][call'.op \in QueryOps => UNCHANGED index]_vars

(***************************************************************************)
(* C17, amended: the four queries leave the three mappings unchanged, and  *)
(* create no entry for a key that is missing; features, duplicate_id and   *)
(* feature_ids leave the whole FeatureMap unchanged, while                 *)
(* find_features_by_anatomical_id appends the pair it was called with to   *)
(* the list of unknown anatomy when it returns the empty list for a pair   *)
(* that is not in the list, and leaves the list unchanged otherwise.       *)
(***************************************************************************)
QueriesKeepMappings ==
    [][call'.op \in QueryOps =>
          /\ UNCHANGED <<heap, id_to_feature, class_to_features, model_to_features>>
          /\ call'.op /= "find_features_by_anatomical_id" => UNCHANGED unknown_anatomy
          /\ call'.op = "find_features_by_anatomical_id" =>
                LET pair == <<call'.anatomical_id, call'.anatomical_layers>>
                IN  unknown_anatomy' =
                       IF call'.result = <<>> /\ ~InList(pair, unknown_anatomy)
                       THEN Append(unknown_anatomy, pair)
                       ELSE unknown_anatomy]_vars

\* find_features_by_anatomical_id was called with an identifier and a layer
\* that are no keys of the models mapping while a Feature was registered: it
\* returned the empty list, the pair is remembered and no key was created
QueriesKeepMappingsWitness ==
    /\ IsResolve
    /\ heap /= <<>>
    /\ Len(call.anatomical_layers) = 1
    /\ call.anatomical_id \notin DOMAIN model_to_features
    /\ call.anatomical_layers[1] \notin DOMAIN model_to_features
    /\ call.result = <<>>
    /\ unknown_anatomy = <<<<call.anatomical_id, call.anatomical_layers>>>>

(***************************************************************************)
(* The shapes and lists the claims about __process_shape_list speak of.    *)
(***************************************************************************)
\* the properties hold the marker `key`: the key is there and not False
Marked(properties, key) == key \in DOMAIN properties /\ properties[key] /= BoolV(FALSE)

\* validation reported an error for the shape, or its properties mark it
\* invisible, a path or excluded
IsDropped(shape) ==
    \/ Marked(shape.properties, "error")
    \/ Marked(shape.properties, "invisible")
    \/ Marked(shape.properties, "path")
    \/ Marked(shape.properties, "exclude")

\* the Feature `ref` refers to was built from the geometry and properties of
\* `shape`
BuiltFrom(ref, shape) ==
    /\ heap[ref].feature_id = ref
    /\ heap[ref].geometry = shape.geometry
    /\ ~heap[ref].has_children
    /\ \A key \in DOMAIN shape.properties :
          get_property(heap[ref], key, None) = shape.properties[key]

\* the call whose loop is running
Top == frames[Len(frames)]

AllDropped(shapes) ==
    /\ Len(shapes) > 1
    /\ \A i \in 2..Len(shapes) : shapes[i].kind = "shape" /\ IsDropped(shapes[i])

(***************************************************************************)
(* C12 as stated: the list of a group's Features is handed to              *)
(* add_features('Group', ...) only when it is not empty, and a group whose *)
(* children are all dropped yields no Feature and adds nothing to the list *)
(* of the call before it.                                                  *)
(***************************************************************************)
EmptyGroupNeverOffered ==
    call.op = "add_features" =>
       /\ call.features /= <<>>
       /\ AllDropped(call.shapes) =>
             /\ call.result = <<>>
             /\ heap = call.heap_before
             /\ Top.features = call.features_before

(***************************************************************************)
(* C12, amended: a group whose children are all dropped produces no        *)
(* Feature at all and adds nothing to the list of the call before it; its  *)
(* empty list is handed to add_features('Group', ...) all the same, and it *)
(* is add_features that makes no group Feature of an empty list.           *)
(***************************************************************************)
EmptyGroupYieldsNothing ==
    (call.op = "add_features" /\ AllDropped(call.shapes)) =>
       /\ call.features = <<>>
       /\ call.result = <<>>
       /\ heap = call.heap_before
       /\ Top.features = call.features_before

\* a group of one excluded shape has returned, after a shape that gave a
\* Feature: add_features was called with the empty list and the list of the
\* call before holds that one Feature still
EmptyGroupYieldsNothingWitness ==
    /\ call.op = "add_features"
    /\ Len(call.shapes) = 2
    /\ AllDropped(call.shapes)
    /\ Marked(call.shapes[2].properties, "exclude")
    /\ call.features = <<>>
    /\ Top.features = <<1>>
    /\ Len(heap) = 1

(***************************************************************************)
(* C16 as stated: a group with a non-empty list of Features adds to the    *)
(* list of the call before it either the one group Feature add_features    *)
(* returns or, when add_features returns none, its Features in their       *)
(* order.                                                                  *)
(***************************************************************************)
GroupAddsAggregateOrChildren ==
    (call.op = "add_features" /\ call.features /= <<>>) =>
       /\ Len(call.result) <= 1
       /\ Top.features = call.features_before
                            \o (IF call.result /= <<>> THEN call.result ELSE call.features)

(***************************************************************************)
(* C16, amended: a group with a non-empty list of Features adds to the     *)
(* list of the call before it exactly one group Feature when add_features  *)
(* returns one, and nothing when add_features returns none: the Features   *)
(* of the group are handed to add_features and stay registered, but are    *)
(* never appended to the enclosing list.                                   *)
(***************************************************************************)
GroupAddsAggregateOrNothing ==
    (call.op = "add_features" /\ call.features /= <<>>) =>
       /\ Len(call.result) <= 1
       /\ Top.features = call.features_before \o call.result
       /\ \A i \in 1..Len(call.features) :
             /\ \A j \in 1..Len(Top.features) : Top.features[j] /= call.features[i]
             /\ InList(call.features[i], registered)

\* a group with one Feature has returned and add_features gave no group
\* Feature: the list of the call before holds the Feature of the shape met
\* before the group, and not the Feature of the group
GroupAddsAggregateOrNothingWitness ==
    /\ call.op = "add_features"
    /\ call.features = <<2>>
    /\ call.result = <<>>
    /\ call.features_before = <<1>>
    /\ Top.features = <<1>>
    /\ Len(heap) = 2

(***************************************************************************)
(* The list `collected` holds, in the order of `shapes`, the Feature of    *)
(* each shape after the first that is not dropped and the group Feature of *)
(* each TreeList that gave one, and the Features were numbered in that     *)
(* order.                                                                  *)
(***************************************************************************)
InOrderOf(shapes, collected) ==
    LET kept == SelectSeq(Tail(shapes),
                          LAMBDA shape : IF shape.kind = "shape"
                                         THEN ~IsDropped(shape)
                                         ELSE shape.grouped_feature /= <<>>)
    IN  /\ Len(collected) = Len(kept)
        /\ \A i \in 1..Len(kept) :
              IF kept[i].kind = "shape"
              THEN BuiltFrom(collected[i], kept[i])
              ELSE /\ collected[i] = kept[i].grouped_feature[1]
                   /\ heap[collected[i]].has_children
        /\ \A i, j \in 1..Len(collected) :
              i < j => heap[collected[i]].feature_id < heap[collected[j]].feature_id

(***************************************************************************)
(* C11 as stated: the list __process_shape_list returns holds the Features *)
(* of the shapes that are not dropped, and the group Features, in the      *)
(* order in which the traversal met them, which is the order of their      *)
(* numbers; stated for the slides where no group Feature was made, whose   *)
(* Features are those of the shapes.                                       *)
(***************************************************************************)
ReturnsEveryFeatureInOrder ==
    (call.op = "return" /\ \A ref \in DOMAIN heap : ~heap[ref].has_children) =>
       call.result = [i \in 1..Len(heap) |-> i]

(***************************************************************************)
(* C11, amended: the list __process_shape_list returns holds, in the order *)
(* of its TreeList, the Feature of each shape of that TreeList that is not *)
(* dropped and the group Feature of each TreeList in it that gave one; the *)
(* Features of the shapes inside a group are not in it.  The Features are  *)
(* numbered in the order in which they were made, so the numbers increase  *)
(* along the list; shapes [s1, s2, s3] with no groups give [f1, f2, f3].   *)
(***************************************************************************)
ReturnsOwnFeaturesInOrder ==
    /\ \A n \in 1..Len(frames) : InOrderOf(frames[n].shapes, frames[n].features)
    /\ call.op = "return" => InOrderOf(call.shapes, call.result)
    /\ \A ref \in DOMAIN heap : heap[ref].feature_id = ref

\* three shapes that are not dropped, and no group: the call returned their
\* Features, numbered 1, 2, 3, in that order
ReturnsOwnFeaturesInOrderWitness ==
    /\ call.op = "return"
    /\ Len(call.shapes) = 4
    /\ \A i \in 2..4 : call.shapes[i].kind = "shape" /\ ~IsDropped(call.shapes[i])
    /\ call.shapes[2] /= call.shapes[3]
    /\ call.result = <<1, 2, 3>>

====
